---- MODULE Spec2Model ----
(***************************************************************************)
(* Model of the ASHI STUDIO invoice generator (src/main.py): the numeric   *)
(* parser, the ordinal words, the payment derivation (Python float         *)
(* arithmetic and round()), the composition of the invoice document and    *)
(* the Streamlit script run around it.                                     *)
(*                                                                         *)
(* Text is a sequence of one-character strings.  The payment fields name,  *)
(* date and description, the client fields and the fixed letterhead, bank  *)
(* and boilerplate text do not influence any number or outcome and are     *)
(* left out of the state.                                                  *)
(***************************************************************************)
EXTENDS Integers, Sequences, FiniteSets, TLC

(***************************************************************************)
(* Characters                                                              *)
(***************************************************************************)
DecimalDigits == <<"0", "1", "2", "3", "4", "5", "6", "7", "8", "9">>

IsDecimalChar(c) == \E i \in 1..Len(DecimalDigits) : DecimalDigits[i] = c

DigitValue(c) == (CHOOSE i \in 1..Len(DecimalDigits) : DecimalDigits[i] = c) - 1

\* U+00B2 SUPERSCRIPT TWO: a character of Unicode category No whose
\* Numeric_Type is Digit, so str.isdigit() accepts it and int() does not.
SuperscriptTwo == "sup2"

IsWhitespace(c) == c = " "

IsDigitChar(c) == IsDecimalChar(c) \/ c = SuperscriptTwo

(***************************************************************************)
(* Python string and integer primitives used by the parser and the         *)
(* formatter                                                               *)
(***************************************************************************)
\* text.replace(",", "")
RemoveCommas(text) == SelectSeq(text, LAMBDA c : c # ",")

RECURSIVE lstrip(_)
lstrip(text) ==
    IF text # <<>> /\ IsWhitespace(Head(text)) THEN lstrip(Tail(text)) ELSE text

RECURSIVE rstrip(_)
rstrip(text) ==
    IF text # <<>> /\ IsWhitespace(text[Len(text)])
    THEN rstrip(SubSeq(text, 1, Len(text) - 1))
    ELSE text

\* str.strip()
strip(text) == rstrip(lstrip(text))

\* str.isdigit(): non-empty and every character is a digit character
isdigit(text) == text # <<>> /\ \A i \in 1..Len(text) : IsDigitChar(text[i])

RECURSIVE DecimalValue(_)
DecimalValue(text) ==
    IF text = <<>> THEN 0
    ELSE 10 * DecimalValue(SubSeq(text, 1, Len(text) - 1)) + DigitValue(text[Len(text)])

\* int(text) on a string without sign, underscore or whitespace: the value of a
\* string of decimal digits, ValueError on anything else.
int(text) ==
    IF text # <<>> /\ \A i \in 1..Len(text) : IsDecimalChar(text[i])
    THEN [raised |-> FALSE, value |-> DecimalValue(text)]
    ELSE [raised |-> TRUE, value |-> 0]

\* def parse_int_with_commas(text)
parse_int_with_commas(text) ==
    LET cleaned == strip(RemoveCommas(text))
    IN  IF isdigit(cleaned) THEN int(cleaned) ELSE [raised |-> FALSE, value |-> 0]

RECURSIVE DigitsOf(_)
DigitsOf(n) ==
    IF n < 10 THEN <<DecimalDigits[n + 1]>>
    ELSE Append(DigitsOf(n \div 10), DecimalDigits[(n % 10) + 1])

RECURSIVE GroupThousands(_)
GroupThousands(ds) ==
    IF Len(ds) <= 3 THEN ds
    ELSE GroupThousands(SubSeq(ds, 1, Len(ds) - 3)) \o <<",">>
         \o SubSeq(ds, Len(ds) - 2, Len(ds))

\* f"{n}" for n >= 0
FormatPlain(n) == DigitsOf(n)

\* f"{n:,d}" for n >= 0
FormatThousands(n) == GroupThousands(DigitsOf(n))

\* the euro sign, one character
CURRENCY_SYMBOL == "EUR"

\* f"{n:,d} {CURRENCY_SYMBOL}"
FormatMoney(n) == FormatThousands(n) \o <<" ", CURRENCY_SYMBOL>>

\* f"{n:,d}%"
FormatPercentCell(n) == FormatThousands(n) \o <<"%">>

\* f"{n}%"
FormatPercentTerm(n) == FormatPlain(n) \o <<"%">>

(***************************************************************************)
(* ordinal                                                                 *)
(***************************************************************************)
ordinals == <<"first", "second", "third", "fourth", "fifth",
              "sixth", "seventh", "eighth", "ninth", "tenth">>

RECURSIVE str(_)
str(n) ==
    IF n < 10 THEN DecimalDigits[n + 1]
    ELSE str(n \div 10) \o DecimalDigits[(n % 10) + 1]

ordinal_english_suffix(n) ==
    IF n < Len(ordinals) THEN ordinals[n + 1]
    ELSE LET k == n + 1
         IN  IF (k % 100) \in 11..13 THEN str(k) \o "th"
             ELSE IF k % 10 = 1 THEN str(k) \o "st"
             ELSE IF k % 10 = 2 THEN str(k) \o "nd"
             ELSE IF k % 10 = 3 THEN str(k) \o "rd"
             ELSE str(k) \o "th"

\* def ordinal(n), for n >= 0 (Python indexes the list from 0)
ordinal(n) == IF n < Len(ordinals) THEN ordinals[n + 1] ELSE str(n + 1) \o "th"

(***************************************************************************)
(* Python float arithmetic (IEEE-754 binary64, round to nearest even).     *)
(* A positive double is [m, e]: m the 53 bits of its significand, most     *)
(* significant first and leading bit 1, and the value is m * 2^e.  Bit     *)
(* sequences stand for the integers that do not fit the checker's          *)
(* integers.                                                               *)
(***************************************************************************)
MantBits == 53

RECURSIVE IntBits(_)
IntBits(n) == IF n = 0 THEN <<>> ELSE Append(IntBits(n \div 2), n % 2)

RECURSIVE BitsToInt(_)
BitsToInt(bs) ==
    IF bs = <<>> THEN 0
    ELSE 2 * BitsToInt(SubSeq(bs, 1, Len(bs) - 1)) + bs[Len(bs)]

\* the first n bits of the binary expansion of r / b (0 <= r < b), and the
\* remainder left after them
RECURSIVE FracBits(_, _, _, _)
FracBits(r, b, n, acc) ==
    IF n = 0 THEN [bits |-> acc, rem |-> r]
    ELSE IF 2 * r >= b THEN FracBits(2 * r - b, b, n - 1, Append(acc, 1))
         ELSE FracBits(2 * r, b, n - 1, Append(acc, 0))

\* the number of zero bits that open the binary expansion of r / b, 0 < r < b
RECURSIVE LeadZeros(_, _)
LeadZeros(r, b) == IF 2 * r >= b THEN 0 ELSE 1 + LeadZeros(2 * r, b)

RECURSIVE Pow2(_)
Pow2(k) == IF k = 0 THEN 1 ELSE 2 * Pow2(k - 1)

RECURSIVE IncBits(_)
IncBits(bs) ==
    IF bs = <<>> THEN <<1>>
    ELSE IF bs[Len(bs)] = 0 THEN Append(SubSeq(bs, 1, Len(bs) - 1), 1)
         ELSE Append(IncBits(SubSeq(bs, 1, Len(bs) - 1)), 0)

Cmp(x, y) == IF x > y THEN 1 ELSE IF x = y THEN 0 ELSE -1

\* a discarded tail of bits against one half of the last place kept:
\* 1 above, 0 equal, -1 below
TailCmp(tail) ==
    IF tail = <<>> THEN -1
    ELSE IF tail[1] = 0 THEN -1
    ELSE IF \E j \in 2..Len(tail) : tail[j] = 1 THEN 1 ELSE 0

\* round to nearest, ties to even: bs are the MantBits leading bits of the exact
\* result, half says how the rest of it compares with half a unit in the last place
RoundToDouble(bs, e, half) ==
    IF half = 1 \/ (half = 0 /\ bs[Len(bs)] = 1)
    THEN LET up == IncBits(bs)
         IN  IF Len(up) > MantBits
             THEN [m |-> SubSeq(up, 1, MantBits), e |-> e + 1]
             ELSE [m |-> up, e |-> e]
    ELSE [m |-> bs, e |-> e]

\* a / b for ints a > 0, b > 0: the double nearest the exact quotient
TrueDiv(a, b) ==
    LET q == a \div b
        r == a % b
    IN  IF q > 0
        THEN LET ib == IntBits(q)
                 f  == FracBits(r, b, MantBits - Len(ib), <<>>)
             IN  RoundToDouble(ib \o f.bits, -(MantBits - Len(ib)), Cmp(2 * f.rem, b))
        ELSE LET k == LeadZeros(r, b)
                 f == FracBits(r * Pow2(k), b, MantBits, <<>>)
             IN  RoundToDouble(f.bits, -(k + MantBits), Cmp(2 * f.rem, b))

\* the bits of bs * c, from bit i of bs down to the lowest, carry coming in
RECURSIVE MulBits(_, _, _, _)
MulBits(bs, c, i, carry) ==
    IF i = 0 THEN IntBits(carry)
    ELSE IF (bs[i] * c + carry) % 2 = 1
         THEN Append(MulBits(bs, c, i - 1, (bs[i] * c + carry) \div 2), 1)
         ELSE Append(MulBits(bs, c, i - 1, (bs[i] * c + carry) \div 2), 0)

\* x * c for a double x > 0 and an int c > 0 (c converts to a double exactly):
\* the double nearest the exact product
FloatMulInt(x, c) ==
    LET p    == MulBits(x.m, c, MantBits, 0)
        drop == Len(p) - MantBits
    IN  RoundToDouble(SubSeq(p, 1, MantBits), x.e + drop,
                      TailCmp(SubSeq(p, MantBits + 1, Len(p))))

\* round(x) for a double 0 < x < 2^31: the nearest integer, ties to even
round(x) ==
    LET nint == MantBits + x.e
    IN  IF nint < 0 THEN 0
        ELSE LET ip   == BitsToInt(SubSeq(x.m, 1, nint))
                 half == TailCmp(SubSeq(x.m, nint + 1, MantBits))
             IN  IF half = 1 \/ (half = 0 /\ ip % 2 = 1) THEN ip + 1 ELSE ip

(***************************************************************************)
(* Payment derivation                                                      *)
(***************************************************************************)
\* int(round(amt / sum_price_local * 100)), amt > 0; ZeroDivisionError when
\* sum_price_local is 0
DerivePercentage(amt, sum_price_local) ==
    IF sum_price_local = 0 THEN [raised |-> TRUE, value |-> 0]
    ELSE [raised |-> FALSE,
          value  |-> round(FloatMulInt(TrueDiv(amt, sum_price_local), 100))]

\* int(round(perc / 100 * sum_price_local)), perc > 0; a product with 0 is 0.0
DeriveAmount(perc, sum_price_local) ==
    IF sum_price_local = 0 THEN 0
    ELSE round(FloatMulInt(TrueDiv(perc, 100), sum_price_local))

DeriveEntryAlways(perc, amt, sum_price_local) ==
    IF perc = 0 /\ amt # 0
    THEN LET d == DerivePercentage(amt, sum_price_local)
         IN  [raised |-> d.raised, percentage |-> d.value, amount |-> amt]
    ELSE IF perc # 0
    THEN [raised |-> FALSE, percentage |-> perc,
          amount |-> DeriveAmount(perc, sum_price_local)]
    ELSE [raised |-> FALSE, percentage |-> perc, amount |-> amt]

\* the if / elif of one loop iteration: the values of perc and amt after it, or
\* the exception it raised
DeriveEntry(perc, amt, sum_price_local) ==
    IF perc = 0 /\ amt # 0
    THEN LET d == DerivePercentage(amt, sum_price_local)
         IN  [raised |-> d.raised, percentage |-> d.value, amount |-> amt]
    ELSE IF amt = 0 /\ perc # 0
    THEN [raised |-> FALSE, percentage |-> perc,
          amount |-> DeriveAmount(perc, sum_price_local)]
    ELSE [raised |-> FALSE, percentage |-> perc, amount |-> amt]

(***************************************************************************)
(* Bounds of the model and the form inputs it draws                        *)
(***************************************************************************)
\* "Number of Items" goes up to 20 in the form
MaxItems == 2
\* "Number of Payments" goes up to 10 in the form
MaxPayments == 2
\* largest index given to ordinal
MaxOrdinalIndex == 120
\* longest text given to the parser
MaxTextLen == 3

None == <<>>

Some(x) == <<x>>

\* what is typed into "Invoice Number" and "VAT"
HeadTexts ==
    { [invoice_number |-> <<"3", "6", "9", "/", "2", "0", "2", "5">>,
       vat_str |-> <<"0">>],
      [invoice_number |-> <<"3", "7", "0", "/", "A", "/", "2", "5">>,
       vat_str |-> <<"1", "5", "0">>],
      [invoice_number |-> <<"3", "7", "0", "/", "A", "/", "2", "5">>,
       vat_str |-> <<SuperscriptTwo>>] }

\* what is typed into "Total Price i" and "To Be Paid i"
ItemRowTexts ==
    { [price_str |-> <<"1", ",", "0", "0", "0">>, paid_str |-> <<"5", "0", "0">>],
      [price_str |-> <<"4", "5">>,                paid_str |-> <<" ", "1", ",", "0", "0", "0">>],
      [price_str |-> <<>>,                        paid_str |-> <<"a", "b", "c">>] }

\* what is typed into "Percentage i" and "Amount i"
PaymentRowTexts ==
    { [perc_str |-> <<"3", "0">>,      amt_str |-> <<"0">>],
      [perc_str |-> <<"7", "0">>,      amt_str |-> <<"0">>],
      [perc_str |-> <<"1", "0", "0">>, amt_str |-> <<"3", "0", "0">>],
      [perc_str |-> <<"0">>,           amt_str |-> <<"3", "0", "0">>],
      [perc_str |-> <<"0">>,           amt_str |-> <<>>] }

\* names for the bytes objects the session can hold; a new object gets a name
\* that is not in use
Serials == {1, 2}

SeqsUpTo(S, n) == UNION { [1..k -> S] : k \in 1..n }

\* sum(...) over a list of ints
RECURSIVE sum(_)
sum(xs) == IF xs = <<>> THEN 0 ELSE Head(xs) + sum(Tail(xs))

Prices(its) == [i \in DOMAIN its |-> its[i].price]

Paids(its) == [i \in DOMAIN its |-> its[i].paid]

Percentages(ps) == [i \in DOMAIN ps |-> ps[i].percentage]

Amounts(ps) == [i \in DOMAIN ps |-> ps[i].amount]

(***************************************************************************)
(* State                                                                   *)
(***************************************************************************)
VARIABLES
    pc,              \* where the script run stands; "idle" between two runs
    clicked,         \* what st.button("Generate Invoice") returns in this run
    invoice_number,  \* the "Invoice Number" field
    items,           \* list of [price, paid], as parsed
    vat_val,
    sum_price,       \* the script's total price
    entered,         \* perc_val and amt_val of every payment, as parsed
    payments,        \* list of [percentage, amount]: invoice_data["payments"]
    pdf,             \* the cells composed so far on the FPDF object
    sum_price_local, \* create_invoice_pdf's base price
    idx,             \* index of the payment-schedule loop, from 1
    pdf_bytes,       \* what create_invoice_pdf returned: None or Some(document)
    pdf_data,        \* st.session_state.pdf_data
    messages,        \* st.error / st.warning / st.success shown by this run
    offered,         \* the download button on the page: None or Some(button)
    arg,             \* argument of a direct call of a utility function
    ret              \* what that call returned

vars == <<pc, clicked, invoice_number, items, vat_val, sum_price, entered, payments,
          pdf, sum_price_local, idx, pdf_bytes, pdf_data, messages, offered,
          arg, ret>>

locals == <<invoice_number, items, vat_val, sum_price, entered, payments,
            pdf, sum_price_local, idx, pdf_bytes>>

form == <<invoice_number, items, vat_val, sum_price, entered>>

util == <<arg, ret>>

NoLocals ==
    /\ invoice_number = <<>>
    /\ items = <<>>
    /\ vat_val = 0
    /\ sum_price = 0
    /\ entered = <<>>
    /\ payments = <<>>
    /\ pdf = <<>>
    /\ sum_price_local = 0
    /\ idx = 0
    /\ pdf_bytes = None

\* the locals of a script run are gone when it ends
ResetLocals ==
    /\ invoice_number' = <<>>
    /\ items' = <<>>
    /\ vat_val' = 0
    /\ sum_price' = 0
    /\ entered' = <<>>
    /\ payments' = <<>>
    /\ pdf' = <<>>
    /\ sum_price_local' = 0
    /\ idx' = 0
    /\ pdf_bytes' = None

Init ==
    /\ pc = "idle"
    /\ clicked = FALSE
    /\ NoLocals
    /\ pdf_data = None
    /\ messages = {}
    /\ offered = None
    /\ arg = <<>>
    /\ ret = <<>>

(***************************************************************************)
(* The script run up to the button                                         *)
(***************************************************************************)
ParsedItems(rows) ==
    [i \in DOMAIN rows |->
        [price |-> parse_int_with_commas(rows[i].price_str),
         paid  |-> parse_int_with_commas(rows[i].paid_str)]]

ParsedPayments(rows) ==
    [i \in DOMAIN rows |->
        [percentage |-> parse_int_with_commas(rows[i].perc_str),
         amount     |-> parse_int_with_commas(rows[i].amt_str)]]

\* the first call of parse_int_with_commas that raises stops the script: the
\* exception is caught nowhere
ParseRaised(its, vat, pays) ==
    \/ \E i \in DOMAIN its : its[i].price.raised \/ its[i].paid.raised
    \/ vat.raised
    \/ \E i \in DOMAIN pays : pays[i].percentage.raised \/ pays[i].amount.raised

\* One run of the script from its first line to the button: the widgets return
\* what the user typed, the numeric fields are parsed and the totals summed.
Rerun ==
    /\ pc = "idle"
    /\ messages' = {}
    /\ offered' = None
    /\ clicked' \in BOOLEAN
    /\ \E head \in HeadTexts, item_rows \in SeqsUpTo(ItemRowTexts, MaxItems),
          pay_rows \in SeqsUpTo(PaymentRowTexts, MaxPayments) :
          LET its  == ParsedItems(item_rows)
              vat  == parse_int_with_commas(head.vat_str)
              pays == ParsedPayments(pay_rows)
          IN  IF ParseRaised(its, vat, pays)
              THEN /\ pc' = "uncaught"
                   /\ UNCHANGED locals
              ELSE /\ pc' = "button"
                   /\ invoice_number' = head.invoice_number
                   /\ items' = [i \in DOMAIN its |->
                                  [price |-> its[i].price.value, paid |-> its[i].paid.value]]
                   /\ vat_val' = vat.value
                   /\ sum_price' = sum(Prices(items'))
                   /\ entered' = [i \in DOMAIN pays |->
                                    [percentage |-> pays[i].percentage.value,
                                     amount     |-> pays[i].amount.value]]
                   /\ payments' = entered'
                   /\ UNCHANGED <<pdf, sum_price_local, idx, pdf_bytes>>
    /\ UNCHANGED <<pdf_data, util>>

\* the uncaught ValueError ends the run: nothing below the failing line runs
ScriptStopped ==
    /\ pc = "uncaught"
    /\ pc' = "idle"
    /\ messages' = {"uncaught exception"}
    /\ clicked' = FALSE
    /\ UNCHANGED <<locals, pdf_data, offered, util>>

(***************************************************************************)
(* The "Generate Invoice" handler                                          *)
(***************************************************************************)
ErrSums == "Either sum of payment percentages must be 100%, or sum of payment amounts must equal total price."

ErrZero == "Each payment must have a non-zero percentage or a non-zero amount."

ErrInit == "PDF initialization failed"

\* "Failed to generate PDF: {e}" for an exception of the PDF library
ErrRender == "Failed to generate PDF: library error"

\* the same message for the ZeroDivisionError of the derivation
ErrZeroDivision == "Failed to generate PDF: division by zero"

WarnLogo == "Logo file not found"

ValidationErrorsSumsOnly(pays, total_price) ==
    IF ~(sum(Percentages(pays)) = 100 \/ sum(Amounts(pays)) = total_price)
    THEN {ErrSums} ELSE {}

\* validation_errors of the handler
ValidationErrors(pays, total_price) ==
    (IF ~(sum(Percentages(pays)) = 100 \/ sum(Amounts(pays)) = total_price)
     THEN {ErrSums} ELSE {})
    \cup
    (IF \E i \in DOMAIN pays : pays[i].percentage = 0 /\ pays[i].amount = 0
     THEN {ErrZero} ELSE {})

\* st.button returned False: the handler is skipped
NoClick ==
    /\ pc = "button"
    /\ ~clicked
    /\ pc' = "download"
    /\ UNCHANGED <<clicked, locals, pdf_data, messages, offered, util>>

\* st.button returned True and validation_errors is not empty
GenerateRejected ==
    /\ pc = "button"
    /\ clicked
    /\ ValidationErrors(payments, sum_price) # {}
    /\ messages' = messages \cup ValidationErrors(payments, sum_price)
    /\ pdf_data' = None
    /\ pc' = "download"
    /\ UNCHANGED <<clicked, locals, offered, util>>

\* st.button returned True and validation_errors is empty: invoice_data is built
\* over the same items and payments lists and create_invoice_pdf is called
GenerateAccepted ==
    /\ pc = "button"
    /\ clicked
    /\ ValidationErrors(payments, sum_price) = {}
    /\ pc' = "init_pdf"
    /\ UNCHANGED <<clicked, locals, pdf_data, messages, offered, util>>

(***************************************************************************)
(* create_invoice_pdf                                                      *)
(***************************************************************************)
FreshSerial(stored) ==
    CHOOSE n \in Serials : stored = None \/ stored[1].bytes # n

ExceptReturnsPartial(cells, serial) == Some([serial |-> serial, cells |-> cells])

\* the except clause of create_invoice_pdf, and the "if not pdf" after init_pdf:
\* whatever was composed is dropped
ExceptReturns(cells, serial) == None

\* init_pdf registered both fonts
InitPdfOk ==
    /\ pc = "init_pdf"
    /\ pdf' = <<>>
    /\ pc' = "header"
    /\ UNCHANGED <<clicked, form, payments, sum_price_local, idx, pdf_bytes, pdf_data,
                   messages, offered, util>>

\* add_font or set_font raised: init_pdf returns None and so does create_invoice_pdf
InitPdfFontError ==
    /\ pc = "init_pdf"
    /\ messages' = messages \cup {ErrInit}
    /\ pdf_bytes' = ExceptReturns(pdf, FreshSerial(pdf_data))
    /\ pc' = "store"
    /\ UNCHANGED <<clicked, form, payments, pdf, sum_price_local, idx, pdf_data,
                   offered, util>>

\* 1) header: the logo if the file exists, a warning if not; company, invoice
\* number and client blocks
Header ==
    /\ pc = "header"
    /\ \E logo_exists \in BOOLEAN :
          IF logo_exists
          THEN /\ pdf' = pdf \o <<[kind |-> "logo"], [kind |-> "header"]>>
               /\ UNCHANGED messages
          ELSE /\ pdf' = Append(pdf, [kind |-> "header"])
               /\ messages' = messages \cup {WarnLogo}
    /\ pc' = "items"
    /\ UNCHANGED <<clicked, form, payments, sum_price_local, idx, pdf_bytes, pdf_data,
                   offered, util>>

final_total_over_price(sum_price_items, sum_paid, vat) == sum_price_items + vat

\* final_total = sum_paid + vat
final_total(sum_price_items, sum_paid, vat) == sum_paid + vat

\* 2) items table: a row per item, the summation row, VAT and Total
ItemsTableCells(its, vat) ==
    [i \in DOMAIN its |->
        [kind  |-> "item",
         price |-> FormatMoney(its[i].price),
         paid  |-> FormatMoney(its[i].paid)]]
    \o << [kind  |-> "sum",
           price |-> FormatMoney(sum(Prices(its))),
           paid  |-> FormatMoney(sum(Paids(its)))],
          [kind |-> "vat", value |-> FormatThousands(vat)],
          [kind  |-> "total",
           value |-> FormatMoney(final_total(sum(Prices(its)), sum(Paids(its)), vat))] >>

ItemsTable ==
    /\ pc = "items"
    /\ pdf' = pdf \o ItemsTableCells(items, vat_val)
    /\ sum_price_local' = sum(Prices(items))
    /\ idx' = 1
    /\ pc' = "payments"
    /\ UNCHANGED <<clicked, form, payments, pdf_bytes, pdf_data, messages, offered, util>>

\* one row of the payment schedule table
PaymentCells(perc, amt) ==
    [kind       |-> "payment",
     percentage |-> FormatPercentCell(perc),
     amount     |-> FormatMoney(amt)]

WriteBackNothing(pay, perc, amt) == pay

\* invoice_data["payments"][idx]["percentage"] = perc; ...["amount"] = amt
WriteBack(pay, perc, amt) == [pay EXCEPT !.percentage = perc, !.amount = amt]

\* 3) payment schedule: one iteration of the loop.  A ZeroDivisionError lands
\* in the except clause.
PaymentRow ==
    /\ pc = "payments"
    /\ idx <= Len(payments)
    /\ LET d == DeriveEntry(payments[idx].percentage, payments[idx].amount,
                            sum_price_local)
       IN  IF d.raised
           THEN /\ messages' = messages \cup {ErrZeroDivision}
                /\ pdf_bytes' = ExceptReturns(pdf, FreshSerial(pdf_data))
                /\ pdf' = <<>>
                /\ pc' = "store"
                /\ UNCHANGED <<payments, idx>>
           ELSE /\ pdf' = Append(pdf, PaymentCells(d.percentage, d.amount))
                /\ payments' = [payments EXCEPT
                                  ![idx] = WriteBack(@, d.percentage, d.amount)]
                /\ idx' = idx + 1
                /\ pc' = IF idx = Len(payments) THEN "bank" ELSE "payments"
                /\ UNCHANGED <<pdf_bytes, messages>>
    /\ UNCHANGED <<clicked, form, sum_price_local, pdf_data, offered, util>>

\* 4) bank details
BankDetails ==
    /\ pc = "bank"
    /\ pdf' = Append(pdf, [kind |-> "bank"])
    /\ pc' = "terms"
    /\ UNCHANGED <<clicked, form, payments, sum_price_local, idx, pdf_bytes, pdf_data,
                   messages, offered, util>>

\* the sentence of every payment, read from the entries
TermsCells(pays) ==
    [i \in DOMAIN pays |->
        [kind       |-> "term",
         ordinal    |-> ordinal(i - 1),
         percentage |-> FormatPercentTerm(pays[i].percentage)]]

\* 5) terms and conditions, the standard terms and the closing lines
Terms ==
    /\ pc = "terms"
    /\ pdf' = pdf \o TermsCells(payments) \o <<[kind |-> "closing"]>>
    /\ pc' = "output"
    /\ UNCHANGED <<clicked, form, payments, sum_price_local, idx, pdf_bytes, pdf_data,
                   messages, offered, util>>

\* return bytes(pdf.output(dest="S")): a new bytes object
Output ==
    /\ pc = "output"
    /\ pdf_bytes' = Some([serial |-> FreshSerial(pdf_data), cells |-> pdf])
    /\ pdf' = <<>>
    /\ pc' = "store"
    /\ UNCHANGED <<clicked, form, payments, sum_price_local, idx, pdf_data, messages,
                   offered, util>>

InTry == {"header", "items", "payments", "bank", "terms", "output"}

\* a call of the PDF library inside the try block raised
RenderError ==
    /\ pc \in InTry
    /\ messages' = messages \cup {ErrRender}
    /\ pdf_bytes' = ExceptReturns(pdf, FreshSerial(pdf_data))
    /\ pdf' = <<>>
    /\ pc' = "store"
    /\ UNCHANGED <<clicked, form, payments, sum_price_local, idx, pdf_data, offered, util>>

(***************************************************************************)
(* The handler's end and the download button                               *)
(***************************************************************************)
\* the session keeps the bytes object, which the model holds by its name
StoredPdfData(bytes, inv) ==
    IF bytes # None
    THEN Some([bytes |-> bytes[1].serial, invoice_number |-> inv])
    ELSE None

Store ==
    /\ pc = "store"
    /\ pdf_data' = StoredPdfData(pdf_bytes, invoice_number)
    /\ pc' = "download"
    /\ UNCHANGED <<clicked, locals, messages, offered, util>>

\* str.replace("/", "_"): every occurrence
ReplaceSlash(text) == [i \in DOMAIN text |-> IF text[i] = "/" THEN "_" ELSE text[i]]

\* f"ashi_invoice_{...replace('/', '_')}.pdf"
FileName(inv) == <<"ashi_invoice_">> \o ReplaceSlash(inv) \o <<".pdf">>

\* st.download_button(...) under "if st.session_state.pdf_data"
DownloadButton(stored) ==
    IF stored # None
    THEN Some([data      |-> stored[1].bytes,
               file_name |-> FileName(stored[1].invoice_number)])
    ELSE None

\* the last statement of the script; its locals end with the run
Download ==
    /\ pc = "download"
    /\ offered' = DownloadButton(pdf_data)
    /\ messages' = IF pdf_data # None
                   THEN messages \cup {"Invoice ready for download!"}
                   ELSE messages
    /\ pc' = "idle"
    /\ clicked' = FALSE
    /\ ResetLocals
    /\ UNCHANGED <<pdf_data, util>>

Next ==
    \/ Rerun
    \/ ScriptStopped
    \/ NoClick
    \/ GenerateRejected
    \/ GenerateAccepted
    \/ InitPdfOk
    \/ InitPdfFontError
    \/ Header
    \/ ItemsTable
    \/ PaymentRow
    \/ BankDetails
    \/ Terms
    \/ Output
    \/ RenderError
    \/ Store
    \/ Download

Spec == Init /\ [][Next]_vars

(***************************************************************************)
(* Direct calls of the utility functions                                   *)
(***************************************************************************)
ParserAlphabet == {"0", "1", "2", "3", ",", " ", "a", SuperscriptTwo}

ParserTexts ==
    UNION { [1..k -> ParserAlphabet] : k \in 0..MaxTextLen }
    \cup { <<"1", "2", ",", "3", "0", "0">>,
           <<"1", ",", "2", ",", "3">>,
           <<"a", "b", "c">>,
           <<" ", "1", ",", "0", "0", "0", " ">> }

InitParse ==
    /\ pc = "parse"
    /\ clicked = FALSE
    /\ NoLocals
    /\ pdf_data = None
    /\ messages = {}
    /\ offered = None
    /\ arg \in ParserTexts
    /\ ret = None

\* parse_int_with_commas(arg) returns or raises
ParseCall ==
    /\ pc = "parse"
    /\ ret' = Some(parse_int_with_commas(arg))
    /\ pc' = "parse_done"
    /\ UNCHANGED <<clicked, locals, pdf_data, messages, offered, arg>>

SpecParse == InitParse /\ [][ParseCall]_vars

InitOrdinal ==
    /\ pc = "ordinal"
    /\ clicked = FALSE
    /\ NoLocals
    /\ pdf_data = None
    /\ messages = {}
    /\ offered = None
    /\ arg \in 0..MaxOrdinalIndex
    /\ ret = None

\* ordinal(arg) returns
OrdinalCall ==
    /\ pc = "ordinal"
    /\ ret' = Some(ordinal(arg))
    /\ pc' = "ordinal_done"
    /\ UNCHANGED <<clicked, locals, pdf_data, messages, offered, arg>>

SpecOrdinal == InitOrdinal /\ [][OrdinalCall]_vars

(***************************************************************************)
(* Vocabulary of the claims                                                *)
(***************************************************************************)
\* entry i has gone through the payment-schedule loop of this run
Derived(i) == i \in DOMAIN payments /\ i < idx

\* the loop has gone through every entry
AllDerived == payments # <<>> /\ idx = Len(payments) + 1

\* create_invoice_pdf has been called in this run
Called ==
    \/ pc \in {"init_pdf", "store"} \cup InTry
    \/ pc = "download" /\ (pdf_bytes # None \/ messages \cap {ErrInit, ErrRender, ErrZeroDivision} # {})

\* the nearest integer to num / den (num >= 0, den > 0), a tie broken by rule
ExactRound(num, den, rule) ==
    LET q == num \div den
        r == num % den
    IN  IF 2 * r < den THEN q
        ELSE IF 2 * r > den THEN q + 1
        ELSE CASE rule = "half_even" -> IF q % 2 = 0 THEN q ELSE q + 1
               [] rule = "half_odd"  -> IF q % 2 = 1 THEN q ELSE q + 1
               [] rule = "half_up"   -> q + 1
               [] rule = "half_down" -> q

TieRules == {"half_even", "half_odd", "half_up", "half_down"}

\* entry i holds what the claimed formulas give for what was entered
ClaimedDerivation(i, rule) ==
    LET e == entered[i]
        p == payments[i]
    IN  IF e.percentage = 0 /\ e.amount # 0
        THEN /\ p.amount = e.amount
             /\ sum_price_local # 0 =>
                   p.percentage = ExactRound(e.amount * 100, sum_price_local, rule)
        ELSE IF e.amount = 0 /\ e.percentage # 0
        THEN /\ p.percentage = e.percentage
             /\ p.amount = ExactRound(e.percentage * sum_price_local, 100, rule)
        ELSE p = e

\* the two validation checks, in the words of the claims
SumsCheck(pays, its) ==
    sum(Percentages(pays)) = 100 \/ sum(Amounts(pays)) = sum(Prices(its))

NonZeroCheck(pays) ==
    \A i \in DOMAIN pays : pays[i].percentage # 0 \/ pays[i].amount # 0

\* the number a cell shows: its decimal digits, separators and units dropped
ShownNumber(text) == DecimalValue(SelectSeq(text, IsDecimalChar))

(***************************************************************************)
(* C1                                                                      *)
(***************************************************************************)
\* C1: every entry that has gone through the derivation holds
\* round(amount / basePrice * 100) as percentage when only the amount was given,
\* round(percentage / 100 * basePrice) as amount when only the percentage was
\* given, and what was entered otherwise, with round() the nearest integer and
\* one tie rule for both formulas and all entries.
C1_DerivationRoundsWithOneTieRule ==
    \E rule \in TieRules :
        \A i \in DOMAIN payments : Derived(i) => ClaimedDerivation(i, rule)

\* What the derivation does give: an integer nearest to the exact quotient, an
\* exact tie going either way.
C1_DerivationRoundsToANearestInteger ==
    \A i \in DOMAIN payments :
        Derived(i) => \E rule \in TieRules : ClaimedDerivation(i, rule)

C1_Witness ==
    /\ sum_price_local = 1000
    /\ \E i \in DOMAIN payments :
          /\ Derived(i)
          /\ entered[i] = [percentage |-> 0, amount |-> 300]
          /\ payments[i] = [percentage |-> 30, amount |-> 300]

(***************************************************************************)
(* C2                                                                      *)
(***************************************************************************)
\* C2: create_invoice_pdf is called only in a run whose Generate button was
\* clicked and whose entered payments pass both validation checks; a click
\* whose payments fail a check ends with no generation attempted and
\* pdf_data None.
C2_GenerateOnlyWhenValid ==
    /\ Called => clicked /\ SumsCheck(entered, items) /\ NonZeroCheck(entered)
    /\ (pc = "download" /\ clicked /\ ~(SumsCheck(entered, items) /\ NonZeroCheck(entered)))
          => /\ pdf_data = None
             /\ pdf_bytes = None
             /\ messages \cap {ErrSums, ErrZero} # {}

C2_Witness ==
    /\ pc = "download"
    /\ clicked
    /\ ~SumsCheck(entered, items)
    /\ NonZeroCheck(entered)
    /\ sum(Percentages(entered)) = 60
    /\ pdf_data = None

(***************************************************************************)
(* C3                                                                      *)
(***************************************************************************)
\* C3: once the derivation has gone through every entry of validated data,
\* every entry has a non-zero percentage or amount, and the percentages sum to
\* 100 or the amounts sum to the sum of the item prices.
C3_InvariantAfterDerivation ==
    (Called /\ AllDerived) =>
        /\ NonZeroCheck(payments)
        /\ SumsCheck(payments, items)

(***************************************************************************)
(* C4                                                                      *)
(***************************************************************************)
\* the cells of the document under composition, or of the one returned
Cells == IF pdf_bytes # None THEN pdf_bytes[1].cells ELSE pdf

CellsOfKind(cells, k) == SelectSeq(cells, LAMBDA c : c.kind = k)

Kinds(cells) == [j \in DOMAIN cells |-> cells[j].kind]

Repeat(k, n) == [j \in 1..n |-> k]

\* every section, in order, with a row per item and a row and a sentence per payment
CompleteDocument(cells) ==
    \E logo \in {<<>>, <<"logo">>} :
        Kinds(cells) = logo \o <<"header">> \o Repeat("item", Len(items))
                       \o <<"sum", "vat", "total">>
                       \o Repeat("payment", Len(payments)) \o <<"bank">>
                       \o Repeat("term", Len(payments)) \o <<"closing">>

\* C4: when create_invoice_pdf has returned, it returned None exactly when the
\* font registration or a step of the composition failed, a diagnostic is then
\* shown, and what it returned otherwise is the complete document; a missing logo
\* only adds a warning.  No exception leaves the call: the script is never
\* stopped by one while the data of a call exist.
C4_NoneOrCompleteDocument ==
    /\ pc = "store" =>
          /\ pdf_bytes = None <=> messages \cap {ErrInit, ErrRender, ErrZeroDivision} # {}
          /\ pdf_bytes # None => CompleteDocument(pdf_bytes[1].cells)
          /\ pdf = <<>>
    /\ pc = "uncaught" => payments = <<>> /\ pdf = <<>>

C4_Witness ==
    /\ pc = "store"
    /\ messages = {WarnLogo}
    /\ pdf_bytes # None
    /\ CompleteDocument(pdf_bytes[1].cells)

(***************************************************************************)
(* C6                                                                      *)
(***************************************************************************)
\* C6: wherever the items table is on the document, its summation row shows
\* the sum of the item prices and the sum of the paid amounts, the VAT row
\* shows the VAT, and the Total row shows the sum of the paid amounts plus the
\* VAT; the table is there from the end of its step on.
C6_ItemsTableTotals ==
    /\ \A j \in DOMAIN Cells :
          /\ Cells[j].kind = "sum" =>
                /\ ShownNumber(Cells[j].price) = sum(Prices(items))
                /\ ShownNumber(Cells[j].paid) = sum(Paids(items))
          /\ Cells[j].kind = "vat" => ShownNumber(Cells[j].value) = vat_val
          /\ Cells[j].kind = "total" =>
                ShownNumber(Cells[j].value) = sum(Paids(items)) + vat_val
    /\ pc \in {"payments", "bank", "terms", "output"} =>
          /\ Len(CellsOfKind(Cells, "sum")) = 1
          /\ Len(CellsOfKind(Cells, "total")) = 1
          /\ Len(CellsOfKind(Cells, "item")) = Len(items)
          /\ sum_price_local = sum(Prices(items))

C6_Witness ==
    /\ items = <<[price |-> 1000, paid |-> 500], [price |-> 45, paid |-> 1000]>>
    /\ vat_val = 150
    /\ \E j \in DOMAIN Cells :
          /\ Cells[j].kind = "total"
          /\ Cells[j].value = <<"1", ",", "6", "5", "0", " ", CURRENCY_SYMBOL>>
    /\ \E j \in DOMAIN Cells :
          /\ Cells[j].kind = "sum"
          /\ Cells[j].price = <<"1", ",", "0", "4", "5", " ", CURRENCY_SYMBOL>>
          /\ Cells[j].paid = <<"1", ",", "5", "0", "0", " ", CURRENCY_SYMBOL>>

(***************************************************************************)
(* C7                                                                      *)
(***************************************************************************)
\* C7: an entry entered with both fields non-zero comes out of the derivation
\* as entered, and a second derivation of any entry that holds two non-zero
\* fields, whatever they are, changes neither field and raises nothing.
C7_ResolvedEntriesUnchanged ==
    \A i \in DOMAIN payments :
        Derived(i) =>
            /\ (entered[i].percentage # 0 /\ entered[i].amount # 0)
                  => payments[i] = entered[i]
            /\ (payments[i].percentage # 0 /\ payments[i].amount # 0)
                  => DeriveEntry(payments[i].percentage, payments[i].amount,
                                 sum_price_local)
                     = [raised     |-> FALSE,
                        percentage |-> payments[i].percentage,
                        amount     |-> payments[i].amount]

C7_Witness ==
    /\ sum_price_local = 1000
    /\ \E i \in DOMAIN payments :
          /\ Derived(i)
          /\ entered[i] = [percentage |-> 100, amount |-> 300]
          /\ payments[i] = entered[i]

(***************************************************************************)
(* C9                                                                      *)
(***************************************************************************)
\* C9: every entry that has gone through the loop holds the percentage and the
\* amount its row of the payment schedule table shows, all entries have gone
\* through it when the terms are composed, and the sentence of entry i then
\* shows the percentage of row i.
C9_TermsShowTheDerivedValues ==
    LET rows  == CellsOfKind(Cells, "payment")
        terms == CellsOfKind(Cells, "term")
    IN  /\ \A i \in DOMAIN rows :
              /\ Derived(i)
              /\ payments[i].percentage = ShownNumber(rows[i].percentage)
              /\ payments[i].amount = ShownNumber(rows[i].amount)
        /\ pc = "terms" => AllDerived /\ Len(rows) = Len(payments)
        /\ pc = "output" => Len(terms) = Len(payments)
        /\ terms # <<>> =>
              /\ Len(terms) = Len(rows)
              /\ \A i \in DOMAIN terms :
                    ShownNumber(terms[i].percentage) = ShownNumber(rows[i].percentage)

C9_Witness ==
    LET terms == CellsOfKind(Cells, "term")
    IN  /\ pdf_bytes # None
        /\ sum_price_local = 1000
        /\ \E i \in DOMAIN terms :
              /\ entered[i] = [percentage |-> 0, amount |-> 300]
              /\ terms[i].percentage = <<"3", "0", "%">>

(***************************************************************************)
(* C10                                                                     *)
(***************************************************************************)
\* C10: when create_invoice_pdf returns from a call on validated input with
\* the fonts registered and no failure of the PDF library, the derivation has
\* gone through every entry and a document is returned.
C10_ValidatedInputYieldsDocument ==
    (pc = "store" /\ ErrInit \notin messages /\ ErrRender \notin messages) =>
        /\ AllDerived
        /\ pdf_bytes # None

(***************************************************************************)
(* C5                                                                      *)
(***************************************************************************)
\* C5: parse_int_with_commas raises nothing; with the commas removed and the
\* surrounding whitespace stripped, a text of decimal digits only gives the
\* number it writes, and any other text gives 0.
C5_ParseNeverFails ==
    pc = "parse_done" =>
        LET cleaned == strip(RemoveCommas(arg))
        IN  /\ ~ret[1].raised
            /\ IF cleaned # <<>> /\ \A i \in 1..Len(cleaned) : IsDecimalChar(cleaned[i])
               THEN ret[1].value = DecimalValue(cleaned)
               ELSE ret[1].value = 0

\* What the parser does give: the claimed value whenever it returns, and a
\* ValueError exactly on a cleaned text of digit characters that are not all
\* decimal digits.
C5_ParseValueWhenItReturns ==
    pc = "parse_done" =>
        LET cleaned == strip(RemoveCommas(arg))
            decimal == cleaned # <<>> /\ \A i \in 1..Len(cleaned) : IsDecimalChar(cleaned[i])
        IN  /\ ret[1].raised <=> (isdigit(cleaned) /\ ~decimal)
            /\ ~ret[1].raised => ret[1].value = IF decimal THEN DecimalValue(cleaned) ELSE 0

(***************************************************************************)
(* C8                                                                      *)
(***************************************************************************)
OrdinalWords ==
    <<"first", "second", "third", "fourth", "fifth",
      "sixth", "seventh", "eighth", "ninth", "tenth">>

\* C8: ordinal(n) is the n-th of the words first ... tenth for n in 0..9, and the
\* decimal numeral of n + 1 followed by "th" for every n >= 10.
C8_OrdinalWordsThenNumeralTh ==
    pc = "ordinal_done" =>
        IF arg <= 9 THEN ret[1] = OrdinalWords[arg + 1]
        ELSE ret[1] = ToString(arg + 1) \o "th"

C8_Witness ==
    /\ pc = "ordinal_done"
    /\ arg = 20
    /\ ret[1] = "21th"

(***************************************************************************)
(* C11                                                                     *)
(***************************************************************************)
\* the entered payments pass both validation checks
ValidEntered == SumsCheck(entered, items) /\ NonZeroCheck(entered)

\* st.button returned True and a validation check fails
RejectedClick == pc = "button" /\ clicked /\ ~ValidEntered

\* the button shows the stored bytes under the name made of the stored invoice
\* number, every "/" turned into "_"
ButtonOf(stored, button) ==
    /\ button # None
    /\ button[1].data = stored[1].bytes
    /\ LET inv  == stored[1].invoice_number
           name == button[1].file_name
       IN  /\ Len(name) = Len(inv) + 2
           /\ name[1] = "ashi_invoice_"
           /\ name[Len(name)] = ".pdf"
           /\ \A i \in DOMAIN inv : name[i + 1] = IF inv[i] = "/" THEN "_" ELSE inv[i]

\* what every step does to pdf_data: a click that fails validation resets it;
\* the end of a call of create_invoice_pdf, which only a click that passed
\* validation makes, stores the bytes returned and the invoice number of that
\* run, or None when None was returned; nothing else, a run without a click
\* included, changes it
PdfDataStep ==
    /\ RejectedClick => pdf_data' = None
    /\ pc = "store" =>
          /\ clicked /\ ValidEntered
          /\ pdf_data' = IF pdf_bytes # None
                         THEN Some([bytes          |-> pdf_bytes[1].serial,
                                    invoice_number |-> invoice_number])
                         ELSE None
    /\ ~(RejectedClick \/ pc = "store") => pdf_data' = pdf_data

\* C11: through any sequence of script runs, pdf_data is None or the bytes and
\* the invoice number of the most recent Generate click, which passed
\* validation and produced a document; a click that fails validation or whose
\* generation returns None resets it, a run without a click leaves it as it
\* was; and when a run has ended the download button is on the page, with the
\* stored bytes and the file name of the stored invoice number, exactly when
\* pdf_data is not None.
C11_SessionKeepsLastDocument ==
    [][ /\ PdfDataStep
        /\ pc' = "idle" =>
              IF pdf_data' # None THEN ButtonOf(pdf_data', offered') ELSE offered' = None
      ]_vars

\* What the session does give: pdf_data as claimed after every step, and the
\* download button as claimed at the end of every run that reached its last
\* statement; a run stopped by the ValueError of parse_int_with_commas shows no
\* button whatever pdf_data holds.
C11_SessionOfCompletedRuns ==
    [][ /\ PdfDataStep
        /\ (pc = "download" /\ pc' = "idle") =>
              IF pdf_data' # None THEN ButtonOf(pdf_data', offered') ELSE offered' = None
        /\ (pc = "uncaught" /\ pc' = "idle") => offered' = None
      ]_vars

\* a document of an earlier click is kept through a run without a click, under
\* a file name with both "/" replaced
C11_Witness ==
    /\ pc = "download"
    /\ ~clicked
    /\ pdf_data # None
    /\ pdf_data[1].invoice_number = <<"3", "7", "0", "/", "A", "/", "2", "5">>
    /\ invoice_number = <<"3", "6", "9", "/", "2", "0", "2", "5">>

====
